---------------------------- MODULE Spec2Model ----------------------------
(***************************************************************************)
(* A model of trendtube.py: the Video record (split_title, split_tags,    *)
(* stop_title, stop_tags) and the Trending snapshot (get_videos, the      *)
(* combine_* family, count, find_*_frequencies, bar_plot).                *)
(*                                                                         *)
(* A Python str is a sequence of one-character TLA+ strings; '' is <<>>.   *)
(* A value that is a str or a list (Video.title), or None or a list        *)
(* (Video.tags), is a record [kind, val].                                  *)
(***************************************************************************)
EXTENDS Integers, Sequences, FiniteSets, TLC

VARIABLES
    \* ---- Trending.get_videos, step by step
    pc,                \* position inside get_videos
    session,           \* the webdriver session: "none", "open", "closed"
    ids,               \* the local list ids
    count,             \* the local count of the batching loop
    finished,          \* the local flag of the batching loop
    calls,             \* the id_list of every youtube.list(...) issued, in order
    openAtCall,        \* history: some call was issued while the session was open
    faithful,          \* history: every response held one record per requested id, in order
    \* ---- Trending instance attributes
    videos,            \* self._videos
    titles,            \* self._titles
    tags,              \* self._tags
    title_frequencies, \* self._title_frequencies, a dict in insertion order: <<key, value>> pairs
    tag_frequencies,   \* self._tag_frequencies
    date,              \* self._date
    \* ---- what the last Trending call was and what it returned
    last,
    result,
    title_computed,    \* history: find_title_frequencies has run
    tag_computed,      \* history: find_tag_frequencies has run
    ncombine,          \* history: the calls of the combine_* family made so far
    \* ---- one stand-alone Video
    vid,               \* [title, tags]
    outcome            \* how the last Video method ended

fetchVars == <<pc, session, ids, count, finished, calls, openAtCall, faithful>>
trendVars == <<videos, titles, tags, title_frequencies, tag_frequencies, date>>
callVars  == <<last, result, title_computed, tag_computed, ncombine>>
videoVars == <<vid, outcome>>
vars == <<fetchVars, trendVars, callVars, videoVars>>

---------------------------------------------------------------------------
(* Bounds *)
MaxElems == 120       \* thumbnail elements on the trending page
MaxTitleLen == 3      \* characters of a title given to a stand-alone Video
MaxCombines == 1      \* calls of the combine_* family on one snapshot
MaxThreshold == 2     \* largest threshold passed
MaxTagList == 4       \* tags of a Video before split_tags stops being called

---------------------------------------------------------------------------
(* Python values *)

\* string.punctuation, string.whitespace and letters, one representative each
\* (two letters, so that distinct words exist).
Punctuation == {"!"}
Whitespace == {" "}
Letters == {"a", "b"}
Alphabet == Letters \cup Punctuation \cup Whitespace

Str(s) == [kind |-> "str", val |-> s]
List(l) == [kind |-> "list", val |-> l]
None == [kind |-> "None", val |-> <<>>]

\* All strings of at most n characters over the set chars.
StringsUpTo(chars, n) == UNION {[1..k -> chars] : k \in 0..n}

Range(s) == {s[i] : i \in 1..Len(s)}

\* s[a:b] with 0 <= a, b already clamped by the caller (Python slice, 0-based, b exclusive).
Slice(s, a, b) == IF b <= a THEN <<>> ELSE SubSeq(s, a + 1, b)

\* list.count(x)
Count(s, x) == Cardinality({i \in 1..Len(s) : s[i] = x})

\* list(set(xs)): the order of a set of str depends on the process's hash seed,
\* so any order of the distinct elements may come out.
ListOfSet(S) ==
    {f \in [1..Cardinality(S) -> S] : \A i, j \in 1..Cardinality(S) : f[i] = f[j] => i = j}

NoDuplicates(s) == \A i, j \in 1..Len(s) : s[i] = s[j] => i = j

\* str.lower(), one character
LowerChar(c) == IF c = "A" THEN "a" ELSE IF c = "B" THEN "b" ELSE c
Lower(s) == [i \in 1..Len(s) |-> LowerChar(s[i])]

---------------------------------------------------------------------------
(* Trending.__init__ and the idle values of the parts a specification leaves alone *)

TrendingInit ==
    /\ videos = <<>>
    /\ titles = <<>>
    /\ tags = <<>>
    /\ title_frequencies = <<>>
    /\ tag_frequencies = <<>>
    /\ date = "None"

FetchIdle ==
    /\ pc = "start"
    /\ session = "none"
    /\ ids = <<>>
    /\ count = 0
    /\ finished = FALSE
    /\ calls = <<>>
    /\ openAtCall = FALSE
    /\ faithful = TRUE

CallIdle ==
    /\ last = [op |-> "init", target |-> "none", name |-> [kind |-> "None", val |-> <<>>],
               index |-> [kind |-> "None", val |-> 0],
               split |-> FALSE, combine |-> FALSE, stop_words |-> FALSE, threshold |-> 0]
    /\ result = [kind |-> "None", val |-> 0]
    /\ title_computed = FALSE
    /\ tag_computed = FALSE
    /\ ncombine = 0

VideoIdle ==
    /\ vid = [id |-> 1, title |-> Str(<<>>), tags |-> None, comment_count |-> 0]
    /\ outcome = [op |-> "init", combine |-> FALSE, end |-> "returned"]

---------------------------------------------------------------------------
(* Trending.get_videos *)

\* num, the batch size of the metadata calls
num == 50

\* The thumbnail elements found on the page: element i links to video i, and
\* with blanks every seventh element has no href.
Page(n, blanks) ==
    [i \in 1..n |-> [present |-> ~(blanks /\ i % 7 = 0), id |-> i]]

HasHref(e) == e.present

\* for i in find_elements: url = href; if url: ids.append(url[url.index('=') + 1:])
ExtractIds(page) ==
    LET kept == SelectSeq(page, HasHref)
    IN  [i \in 1..Len(kept) |-> kept[i].id]

\* What leaving the `with ... as driver` block does to the session: the
\* context manager quits the driver, whether the block raised or not.
DriverExitLeak(sess, raised) == IF raised THEN sess ELSE "closed"

DriverExit(sess, raised) == "closed"

\* The id_list of one pass of the batching loop.
BatchIdListInclusive(idseq, cnt) ==
    IF cnt + num < Len(idseq)
    THEN Slice(idseq, cnt, cnt + num + 1)
    ELSE Slice(idseq, cnt, Len(idseq))

BatchIdList(idseq, cnt) ==
    IF cnt + num < Len(idseq)
    THEN Slice(idseq, cnt, cnt + num)
    ELSE Slice(idseq, cnt, Len(idseq))

BatchCount(idseq, cnt) == IF cnt + num < Len(idseq) THEN cnt + num ELSE cnt

BatchFinished(idseq, cnt) == ~(cnt + num < Len(idseq))

\* The shapes of a metadata response: whether it holds a record for every
\* requested id (short: the first one is missing), whether the records carry
\* snippet.tags and statistics.commentCount.
ResponseShapes ==
    { [full |-> TRUE,  rawTags |-> List(<< <<"A">>, <<"a">> >>), commentCount |-> List(<<3>>)],
      [full |-> TRUE,  rawTags |-> None, commentCount |-> None],
      [full |-> FALSE, rawTags |-> List(<< <<"a">>, <<"b">> >>), commentCount |-> None] }

\* youtube.list(part, fields, id=id_list).execute()['items']
Items(id_list, shape) ==
    LET got == IF shape.full \/ id_list = <<>> THEN id_list ELSE Tail(id_list)
    IN  [i \in 1..Len(got) |->
            [id |-> got[i], title |-> <<"a", " ", "b">>,
             tags |-> shape.rawTags, commentCount |-> shape.commentCount]]

\* The lists kwargs['tags'] may be for a record: the set of its lowered tags in
\* some order, or [] when the record carries no tags.
TagsOf(item) ==
    IF item.tags.kind = "list"
    THEN {List(t) : t \in ListOfSet({Lower(tag) : tag \in Range(item.tags.val)})}
    ELSE {List(<<>>)}

CommentCountOf(item) ==
    IF item.commentCount.kind = "list" THEN item.commentCount.val[1] ELSE 0

\* Video(**kwargs) for one record, given the order its tag set came out in.
MakeVideo(item, t) ==
    [id |-> item.id, title |-> Str(item.title), tags |-> t,
     comment_count |-> CommentCountOf(item)]

\* The lists of Video the for loop over the items may append. The records of
\* one response carry the same tags, and equal sets built alike come out in
\* the same order within a process.
VideosOf(items) ==
    IF items = <<>>
    THEN {<<>>}
    ELSE {[i \in 1..Len(items) |-> MakeVideo(items[i], t)] : t \in TagsOf(items[1])}

\* The webdriver constructor returns: the with block is entered.
OpenSession ==
    /\ pc = "start"
    /\ session' = "open"
    /\ pc' = "navigate"
    /\ UNCHANGED <<ids, count, finished, calls, openAtCall, faithful>>
    /\ UNCHANGED <<trendVars, callVars, videoVars>>

\* The webdriver constructor raises: no session was opened.
OpenSessionRaises ==
    /\ pc = "start"
    /\ pc' = "raised"
    /\ UNCHANGED <<session, ids, count, finished, calls, openAtCall, faithful>>
    /\ UNCHANGED <<trendVars, callVars, videoVars>>

\* driver.get(url) returns.
Navigate ==
    /\ pc = "navigate"
    /\ pc' = "extract"
    /\ UNCHANGED <<session, ids, count, finished, calls, openAtCall, faithful>>
    /\ UNCHANGED <<trendVars, callVars, videoVars>>

\* driver.get(url) raises inside the with block.
NavigateRaises ==
    /\ pc = "navigate"
    /\ session' = DriverExit(session, TRUE)
    /\ pc' = "raised"
    /\ UNCHANGED <<ids, count, finished, calls, openAtCall, faithful>>
    /\ UNCHANGED <<trendVars, callVars, videoVars>>

\* The date is taken, the ids are read off the page and the with block is left.
Extract ==
    /\ pc = "extract"
    /\ \E n \in 0..MaxElems, blanks \in BOOLEAN :
          ids' = ExtractIds(Page(n, blanks))
    /\ date' = "utcnow"
    /\ session' = DriverExit(session, FALSE)
    /\ pc' = "batch"
    /\ UNCHANGED <<count, finished, calls, openAtCall, faithful>>
    /\ UNCHANGED <<videos, titles, tags, title_frequencies, tag_frequencies>>
    /\ UNCHANGED <<callVars, videoVars>>

\* find_elements_by_id, get_attribute or url.index('=') raises after the date was taken.
ExtractRaises ==
    /\ pc = "extract"
    /\ date' = "utcnow"
    /\ session' = DriverExit(session, TRUE)
    /\ pc' = "raised"
    /\ UNCHANGED <<ids, count, finished, calls, openAtCall, faithful>>
    /\ UNCHANGED <<videos, titles, tags, title_frequencies, tag_frequencies>>
    /\ UNCHANGED <<callVars, videoVars>>

\* One pass of `while not finished`: the slice, the metadata call, the appends.
Batch ==
    /\ pc = "batch"
    /\ LET id_list == BatchIdList(ids, count)
       IN  /\ calls' = Append(calls, id_list)
           /\ openAtCall' = (openAtCall \/ session = "open")
           /\ count' = BatchCount(ids, count)
           /\ finished' = BatchFinished(ids, count)
           /\ \E shape \in ResponseShapes :
                 /\ faithful' = (faithful /\ (shape.full \/ id_list = <<>>))
                 /\ \E vs \in VideosOf(Items(id_list, shape)) : videos' = videos \o vs
    /\ pc' = IF finished' THEN "done" ELSE "batch"
    /\ UNCHANGED <<session, ids>>
    /\ UNCHANGED <<titles, tags, title_frequencies, tag_frequencies, date>>
    /\ UNCHANGED <<callVars, videoVars>>

\* The metadata call of a pass raises: get_videos ends with the error.
BatchRaises ==
    /\ pc = "batch"
    /\ calls' = Append(calls, BatchIdList(ids, count))
    /\ openAtCall' = (openAtCall \/ session = "open")
    /\ count' = BatchCount(ids, count)
    /\ finished' = BatchFinished(ids, count)
    /\ pc' = "raised"
    /\ UNCHANGED <<session, ids, faithful>>
    /\ UNCHANGED <<trendVars, callVars, videoVars>>

FetchInit == FetchIdle /\ TrendingInit /\ CallIdle /\ VideoIdle

FetchNext ==
    \/ OpenSession
    \/ OpenSessionRaises
    \/ Navigate
    \/ NavigateRaises
    \/ Extract
    \/ ExtractRaises
    \/ Batch
    \/ BatchRaises

SpecFetch == FetchInit /\ [][FetchNext]_vars

---------------------------------------------------------------------------
(* Properties of get_videos *)

RECURSIVE Flatten(_)
Flatten(ss) == IF ss = <<>> THEN <<>> ELSE Head(ss) \o Flatten(Tail(ss))

\* The number of identifiers carried by the calls before call k.
Offset(k) == Len(Flatten(SubSeq(calls, 1, k - 1)))

VideoIds == [i \in 1..Len(videos) |-> videos[i].id]

\* C1: the id lists of the successive metadata calls are consecutive slices of
\* ids of at most 50 identifiers each; once the loop has ended their
\* concatenation in call order is ids itself, and when every response held one
\* record per requested id in request order the videos are in discovery order.
C1_BatchesPartitionIds ==
    /\ \A k \in 1..Len(calls) :
          /\ Len(calls[k]) <= 50
          /\ calls[k] = Slice(ids, Offset(k), Offset(k) + Len(calls[k]))
    /\ pc = "done" => Flatten(calls) = ids
    /\ (pc = "done" /\ faithful) => VideoIds = ids

\* A 120-id discovery fetched in three calls, every response complete.
C1_Witness ==
    /\ pc = "done"
    /\ Len(ids) = 120
    /\ Len(calls) = 3
    /\ faithful
    /\ Len(videos) = 120

\* C2: for n discovered identifiers the loop ends after exactly ceil(n/50)
\* metadata calls, each carrying at least one identifier.
C2_CallsAreCeilNonEmpty ==
    pc = "done" =>
        /\ Len(calls) = (Len(ids) + 49) \div 50
        /\ \A k \in 1..Len(calls) : Len(calls[k]) >= 1

\* C10: once opened, the session is closed on every exit path of get_videos,
\* it is closed before the first metadata call, and no metadata call is
\* issued while it is open.
C10_SessionClosed ==
    /\ (pc \in {"done", "raised"} /\ session # "none") => session = "closed"
    /\ pc = "batch" => session = "closed"
    /\ calls # <<>> => session = "closed"
    /\ ~openAtCall

\* The extraction raised inside the with block: the session was opened, no
\* metadata call was issued, and get_videos has ended with the error.
C10_Witness ==
    /\ pc = "raised"
    /\ date = "utcnow"
    /\ calls = <<>>
    /\ session = "closed"

---------------------------------------------------------------------------
(* Video *)

\* The index of the last character of the first word of s, which starts with
\* a character that is no whitespace.
RECURSIVE WordEnd(_, _)
WordEnd(s, i) ==
    IF i < Len(s) /\ s[i + 1] \notin Whitespace THEN WordEnd(s, i + 1) ELSE i

\* str.split(): the maximal runs of characters that are no whitespace.
RECURSIVE Split(_)
Split(s) ==
    IF s = <<>> THEN <<>>
    ELSE IF Head(s) \in Whitespace THEN Split(Tail(s))
    ELSE LET n == WordEnd(s, 1)
         IN  <<SubSeq(s, 1, n)>> \o Split(SubSeq(s, n + 1, Len(s)))

\* The body of the loop of split_title for one word (a word is never empty).
StripWord(w) ==
    LET first == w[1] \in Punctuation
        final == w[Len(w)] \in Punctuation
    IN  IF first /\ final THEN Slice(w, 1, Len(w) - 1)
        ELSE IF first /\ ~final THEN Slice(w, 1, Len(w))
        ELSE IF ~first /\ final THEN Slice(w, 0, Len(w) - 1)
        ELSE w

\* t before list(set(t)): the stripped words that are not ''.
TitleWords(s) ==
    LET words == Split(s)
        stripped == [i \in 1..Len(words) |-> StripWord(words[i])]
    IN  SelectSeq(stripped, LAMBDA w : w # <<>>)

\* The values self._title may have after split_title(combine) on the str s.
SplitTitleResultsNoSet(s, combine) ==
    {List(IF combine THEN <<s>> \o TitleWords(s) ELSE TitleWords(s))}

SplitTitleResults(s, combine) ==
    {List(IF combine THEN <<s>> \o t ELSE t) : t \in ListOfSet(Range(TitleWords(s)))}

\* `if self._tags:` a list that is not empty
TagsTruthy(t) == t.kind = "list" /\ t.val # <<>>

\* [t for tag in self._tags for t in tag.split()]
RECURSIVE SplitAll(_)
SplitAll(ts) == IF ts = <<>> THEN <<>> ELSE Split(Head(ts)) \o SplitAll(Tail(ts))

\* The ways split_tags(combine) may end on the tags t: the new tags and
\* "returned", or the tags as they were and the error raised.
SplitTagsEndsUnguarded(t, combine) ==
    {[tags |-> List(IF combine THEN t.val \o u ELSE u), end |-> "returned"] :
        u \in ListOfSet(Range(SplitAll(t.val)))}

SplitTagsEnds(t, combine) ==
    IF TagsTruthy(t)
    THEN {[tags |-> List(IF combine THEN t.val \o u ELSE u), end |-> "returned"] :
            u \in ListOfSet(Range(SplitAll(t.val)))}
    ELSE {[tags |-> t, end |-> "TypeError"]}

\* stopwords.words('english') holds 'a'; the custom strings hold the
\* characters of string.punctuation.
Ignore == {<<"a">>} \cup {<<c>> : c \in Punctuation}

\* __remove_stopwords(words) for a list of str, or for a str, whose elements
\* are its characters.
RemoveStopwords(words) ==
    LET elems == IF words.kind = "str"
                 THEN [i \in 1..Len(words.val) |-> <<words.val[i]>>]
                 ELSE words.val
    IN  List(SelectSeq(elems, LAMBDA w : Lower(w) \notin Ignore))

\* vid.split_title(combine): a title that is a list already has no split().
split_title(combine) ==
    /\ IF vid.title.kind = "str"
       THEN /\ \E t \in SplitTitleResults(vid.title.val, combine) :
                  vid' = [vid EXCEPT !.title = t]
            /\ outcome' = [op |-> "split_title", combine |-> combine, end |-> "returned"]
       ELSE /\ vid' = vid
            /\ outcome' = [op |-> "split_title", combine |-> combine, end |-> "AttributeError"]
    /\ UNCHANGED <<fetchVars, trendVars, callVars>>

\* vid.split_tags(combine)
split_tags(combine) ==
    /\ \E e \in SplitTagsEnds(vid.tags, combine) :
          /\ Len(e.tags.val) <= MaxTagList
          /\ vid' = [vid EXCEPT !.tags = e.tags]
          /\ outcome' = [op |-> "split_tags", combine |-> combine, end |-> e.end]
    /\ UNCHANGED <<fetchVars, trendVars, callVars>>

\* vid.stop_title()
stop_title ==
    /\ vid' = [vid EXCEPT !.title = RemoveStopwords(vid.title)]
    /\ outcome' = [op |-> "stop_title", combine |-> FALSE, end |-> "returned"]
    /\ UNCHANGED <<fetchVars, trendVars, callVars>>

\* vid.stop_tags(): None is not iterable.
stop_tags ==
    /\ IF vid.tags.kind = "None"
       THEN /\ vid' = vid
            /\ outcome' = [op |-> "stop_tags", combine |-> FALSE, end |-> "TypeError"]
       ELSE /\ vid' = [vid EXCEPT !.tags = RemoveStopwords(vid.tags)]
            /\ outcome' = [op |-> "stop_tags", combine |-> FALSE, end |-> "returned"]
    /\ UNCHANGED <<fetchVars, trendVars, callVars>>

\* The tags a Video is constructed with: None (the default), [] and lists of
\* distinct lower-case tags, as get_videos builds them.
TagInputs ==
    { None,
      List(<<>>),
      List(<< <<"a">> >>),
      List(<< <<"a", " ", "b">> >>),
      List(<< <<"a", " ", "b">>, <<"b">> >>),
      List(<< <<"b", " ", "a">>, <<"a", " ", "b">> >>) }

\* Video(id, title=..., tags=..., comment_count=...)
VideoInit ==
    /\ \E s \in StringsUpTo(Alphabet, MaxTitleLen), t \in TagInputs :
          vid = [id |-> 1, title |-> Str(s), tags |-> t, comment_count |-> 0]
    /\ outcome = [op |-> "init", combine |-> FALSE, end |-> "returned"]
    /\ FetchIdle /\ TrendingInit /\ CallIdle

VideoNext ==
    \/ \E combine \in BOOLEAN : split_title(combine)
    \/ \E combine \in BOOLEAN : split_tags(combine)
    \/ stop_title
    \/ stop_tags

SpecVideo == VideoInit /\ [][VideoNext]_vars

---------------------------------------------------------------------------
(* Trending: the combine_* family *)

\* What a call returns or raises.
RetNone == [kind |-> "None", val |-> 0]
RetInt(n) == [kind |-> "int", val |-> n]
Raised(e) == [kind |-> e, val |-> 0]

\* An int argument or None (index).
NoArg == [kind |-> "None", val |-> 0]
IntArg(n) == [kind |-> "int", val |-> n]

\* The record of a call: its name and arguments.
Call(op, target, name, index, flags, threshold) ==
    [op |-> op, target |-> target, name |-> name, index |-> index,
     split |-> flags[1], combine |-> flags[2], stop_words |-> flags[3],
     threshold |-> threshold]

NoFlags == <<FALSE, FALSE, FALSE>>

\* list.extend(x): the elements of a list, the characters of a str.
Elements(x) ==
    IF x.kind = "str" THEN [i \in 1..Len(x.val) |-> <<x.val[i]>>] ELSE x.val

\* The body of the loop of combine_titles for one video v: the ways it may end,
\* each with the video as it is left and what was appended to self._titles.
TitleStepEnds(v, split, combine, stop_words) ==
    IF split /\ v.title.kind # "str"
    THEN {[vid |-> v, added |-> <<>>, end |-> "AttributeError"]}
    ELSE LET afterSplit == IF split THEN SplitTitleResults(v.title.val, combine)
                           ELSE {v.title}
         IN  {[vid |-> [v EXCEPT !.title = IF stop_words THEN RemoveStopwords(t) ELSE t],
               added |-> Elements(IF stop_words THEN RemoveStopwords(t) ELSE t),
               end |-> "returned"] : t \in afterSplit}

\* The body of the loop of combine_tags for one video v whose tags are truthy.
TagStepEnds(v, split, combine, stop_words) ==
    LET afterSplit == IF split THEN SplitTagsEnds(v.tags, combine)
                      ELSE {[tags |-> v.tags, end |-> "returned"]}
    IN  {IF e.end # "returned"
         THEN [vid |-> v, added |-> <<>>, end |-> e.end]
         ELSE [vid |-> [v EXCEPT !.tags = IF stop_words THEN RemoveStopwords(e.tags) ELSE e.tags],
               added |-> Elements(IF stop_words THEN RemoveStopwords(e.tags) ELSE e.tags),
               end |-> "returned"] : e \in afterSplit}

\* The body of the loop of combine for one video v: split_title and split_tags,
\* then stop_title and stop_tags, then both extends. An error of split_tags
\* leaves the title already split.
BothStepEnds(v, split, combine, stop_words) ==
    IF split /\ v.title.kind # "str"
    THEN {[vid |-> v, addedTitles |-> <<>>, addedTags |-> <<>>, end |-> "AttributeError"]}
    ELSE LET titlesAfterSplit == IF split THEN SplitTitleResults(v.title.val, combine)
                                 ELSE {v.title}
             tagsAfterSplit == IF split THEN SplitTagsEnds(v.tags, combine)
                               ELSE {[tags |-> v.tags, end |-> "returned"]}
         IN  {IF e.end # "returned"
              THEN [vid |-> [v EXCEPT !.title = t],
                    addedTitles |-> <<>>, addedTags |-> <<>>, end |-> e.end]
              ELSE LET t2 == IF stop_words THEN RemoveStopwords(t) ELSE t
                       g2 == IF stop_words THEN RemoveStopwords(e.tags) ELSE e.tags
                   IN  [vid |-> [v EXCEPT !.title = t2, !.tags = g2],
                        addedTitles |-> Elements(t2), addedTags |-> Elements(g2),
                        end |-> "returned"]
              : t \in titlesAfterSplit, e \in tagsAfterSplit}

\* for vid in self._videos, from video i on: the ways combine_titles may end,
\* each with the videos and the flat titles as they are left.
RECURSIVE CombineTitlesEnds(_, _, _, _, _, _)
CombineTitlesEnds(vs, flat, i, split, combine, stop_words) ==
    IF i > Len(vs)
    THEN {[videos |-> vs, titles |-> flat, end |-> "returned"]}
    ELSE UNION { IF e.end # "returned"
                 THEN {[videos |-> [vs EXCEPT ![i] = e.vid], titles |-> flat, end |-> e.end]}
                 ELSE CombineTitlesEnds([vs EXCEPT ![i] = e.vid], flat \o e.added,
                                        i + 1, split, combine, stop_words)
                 : e \in TitleStepEnds(vs[i], split, combine, stop_words) }

\* for vid in [vid for vid in self._videos if vid.tags], from video i on.
RECURSIVE CombineTagsEnds(_, _, _, _, _, _)
CombineTagsEnds(vs, flat, i, split, combine, stop_words) ==
    IF i > Len(vs)
    THEN {[videos |-> vs, tags |-> flat, end |-> "returned"]}
    ELSE IF ~TagsTruthy(vs[i].tags)
    THEN CombineTagsEnds(vs, flat, i + 1, split, combine, stop_words)
    ELSE UNION { IF e.end # "returned"
                 THEN {[videos |-> [vs EXCEPT ![i] = e.vid], tags |-> flat, end |-> e.end]}
                 ELSE CombineTagsEnds([vs EXCEPT ![i] = e.vid], flat \o e.added,
                                      i + 1, split, combine, stop_words)
                 : e \in TagStepEnds(vs[i], split, combine, stop_words) }

\* for vid in self._videos of combine, from video i on.
RECURSIVE CombineEnds(_, _, _, _, _, _, _)
CombineEnds(vs, flatTitles, flatTags, i, split, combine, stop_words) ==
    IF i > Len(vs)
    THEN {[videos |-> vs, titles |-> flatTitles, tags |-> flatTags, end |-> "returned"]}
    ELSE UNION { IF e.end # "returned"
                 THEN {[videos |-> [vs EXCEPT ![i] = e.vid],
                        titles |-> flatTitles, tags |-> flatTags, end |-> e.end]}
                 ELSE CombineEnds([vs EXCEPT ![i] = e.vid], flatTitles \o e.addedTitles,
                                  flatTags \o e.addedTags, i + 1, split, combine, stop_words)
                 : e \in BothStepEnds(vs[i], split, combine, stop_words) }

EndResult(end) == IF end = "returned" THEN RetNone ELSE Raised(end)

\* trend.combine_titles(split, combine, stop_words)
combine_titles(split, combine, stop_words) ==
    /\ \E e \in CombineTitlesEnds(videos, titles, 1, split, combine, stop_words) :
          /\ videos' = e.videos
          /\ titles' = e.titles
          /\ result' = EndResult(e.end)
    /\ last' = Call("combine_titles", "none", None, NoArg, <<split, combine, stop_words>>, 0)
    /\ UNCHANGED <<tags, title_frequencies, tag_frequencies, date>>
    /\ ncombine < MaxCombines
    /\ ncombine' = ncombine + 1
    /\ UNCHANGED <<title_computed, tag_computed>>
    /\ UNCHANGED <<fetchVars, videoVars>>

\* trend.combine_tags(split, combine, stop_words)
combine_tags(split, combine, stop_words) ==
    /\ \E e \in CombineTagsEnds(videos, tags, 1, split, combine, stop_words) :
          /\ videos' = e.videos
          /\ tags' = e.tags
          /\ result' = EndResult(e.end)
    /\ last' = Call("combine_tags", "none", None, NoArg, <<split, combine, stop_words>>, 0)
    /\ UNCHANGED <<titles, title_frequencies, tag_frequencies, date>>
    /\ ncombine < MaxCombines
    /\ ncombine' = ncombine + 1
    /\ UNCHANGED <<title_computed, tag_computed>>
    /\ UNCHANGED <<fetchVars, videoVars>>

\* trend.combine(split, combine, stop_words)
combine(split, comb, stop_words) ==
    /\ \E e \in CombineEnds(videos, titles, tags, 1, split, comb, stop_words) :
          /\ videos' = e.videos
          /\ titles' = e.titles
          /\ tags' = e.tags
          /\ result' = EndResult(e.end)
    /\ last' = Call("combine", "none", None, NoArg, <<split, comb, stop_words>>, 0)
    /\ UNCHANGED <<title_frequencies, tag_frequencies, date>>
    /\ ncombine < MaxCombines
    /\ ncombine' = ncombine + 1
    /\ UNCHANGED <<title_computed, tag_computed>>
    /\ UNCHANGED <<fetchVars, videoVars>>

---------------------------------------------------------------------------
(* Trending: count, find_*_frequencies, bar_plot *)

\* `if title: ... elif tag: ... else:` which flat sequence a call is about.
Target(title, tag) == IF title THEN "title" ELSE IF tag THEN "tag" ELSE "none"

\* `if name:` a str that is not empty; `elif index:` an int that is not 0.
NameTruthy(name) == name.kind = "str" /\ name.val # <<>>
IndexTruthy(index) == index.kind = "int" /\ index.val # 0

\* The inner if/elif of count on the flat sequence flat; falling off the end
\* returns None.
CountIn(flat, name, index) ==
    IF NameTruthy(name) THEN RetInt(Count(flat, name.val))
    ELSE IF IndexTruthy(index)
    THEN IF index.val < Len(flat)
         THEN RetInt(Count(flat, flat[index.val + 1]))
         ELSE Raised("IndexError")
    ELSE RetNone

\* trend.count(title, tag, name, index)
CountResult(title, tag, name, index) ==
    IF title THEN CountIn(titles, name, index)
    ELSE IF tag THEN CountIn(tags, name, index)
    ELSE RetNone

\* The position of the pair with key k in a dict d, 0 when it has none.
KeyIndex(d, k) ==
    IF \E i \in 1..Len(d) : d[i][1] = k
    THEN CHOOSE i \in 1..Len(d) : d[i][1] = k
    ELSE 0

\* {e: flat.count(e) for e in flat if flat.count(e) >= threshold}, built from
\* element i on: a key met again keeps its place.
RECURSIVE DictFrom(_, _, _, _)
DictFrom(flat, i, threshold, d) ==
    IF i > Len(flat) THEN d
    ELSE LET e == flat[i]
             n == Count(flat, e)
         IN  IF n >= threshold
             THEN IF KeyIndex(d, e) = 0
                  THEN DictFrom(flat, i + 1, threshold, Append(d, <<e, n>>))
                  ELSE DictFrom(flat, i + 1, threshold, [d EXCEPT ![KeyIndex(d, e)] = <<e, n>>])
             ELSE DictFrom(flat, i + 1, threshold, d)

\* sorted() is stable: x goes behind every pair whose value is not larger.
InsertByValue(sorted, x) ==
    LET n == Cardinality({j \in 1..Len(sorted) : sorted[j][2] <= x[2]})
    IN  SubSeq(sorted, 1, n) \o <<x>> \o SubSeq(sorted, n + 1, Len(sorted))

\* dict(sorted(d.items(), key=lambda kv: kv[1]))
RECURSIVE SortedByValue(_, _)
SortedByValue(d, sorted) ==
    IF d = <<>> THEN sorted ELSE SortedByValue(Tail(d), InsertByValue(sorted, Head(d)))

\* The table find_*_frequencies(threshold) stores for the flat sequence flat.
FrequenciesStrict(flat, threshold) ==
    SortedByValue(DictFrom(flat, 1, threshold + 1, <<>>), <<>>)

Frequencies(flat, threshold) ==
    SortedByValue(DictFrom(flat, 1, threshold, <<>>), <<>>)

\* What the plotting of bar_plot ends with: strftime of a date that is None
\* raises, and so does max() of no values.
PlotResult(table) ==
    IF date = "None" THEN Raised("AttributeError")
    ELSE IF table = <<>> THEN Raised("ValueError")
    ELSE RetNone

\* trend.count(title, tag, name, index), called with a name, an index or neither
trend_count(title, tag, name, index) ==
    /\ name.kind = "None" \/ index.kind = "None"
    /\ result' = CountResult(title, tag, name, index)
    /\ last' = Call("count", Target(title, tag), name, index, NoFlags, 0)
    /\ UNCHANGED <<trendVars, title_computed, tag_computed, ncombine>>
    /\ UNCHANGED <<fetchVars, videoVars>>

\* trend.find_title_frequencies(threshold)
find_title_frequencies(threshold) ==
    /\ title_frequencies' = Frequencies(titles, threshold)
    /\ title_computed' = TRUE
    /\ result' = RetNone
    /\ last' = Call("find_title_frequencies", "none", None, NoArg, NoFlags, threshold)
    /\ UNCHANGED <<videos, titles, tags, tag_frequencies, date, tag_computed, ncombine>>
    /\ UNCHANGED <<fetchVars, videoVars>>

\* trend.find_tag_frequencies(threshold)
find_tag_frequencies(threshold) ==
    /\ tag_frequencies' = Frequencies(tags, threshold)
    /\ tag_computed' = TRUE
    /\ result' = RetNone
    /\ last' = Call("find_tag_frequencies", "none", None, NoArg, NoFlags, threshold)
    /\ UNCHANGED <<videos, titles, tags, title_frequencies, date, title_computed, ncombine>>
    /\ UNCHANGED <<fetchVars, videoVars>>

\* trend.bar_plot(title, tag, threshold)
bar_plot(title, tag, threshold) ==
    /\ IF title
       THEN /\ title_frequencies' = IF Len(title_frequencies) = 0
                                    THEN Frequencies(titles, threshold)
                                    ELSE title_frequencies
            /\ title_computed' = (title_computed \/ Len(title_frequencies) = 0)
            /\ result' = PlotResult(title_frequencies')
            /\ UNCHANGED <<tag_frequencies, tag_computed>>
       ELSE IF tag
       THEN /\ tag_frequencies' = IF Len(tag_frequencies) = 0
                                  THEN Frequencies(tags, threshold)
                                  ELSE tag_frequencies
            /\ tag_computed' = (tag_computed \/ Len(tag_frequencies) = 0)
            /\ result' = PlotResult(tag_frequencies')
            /\ UNCHANGED <<title_frequencies, title_computed>>
       ELSE /\ result' = RetNone
            /\ UNCHANGED <<title_frequencies, title_computed, tag_frequencies, tag_computed>>
    /\ last' = Call("bar_plot", Target(title, tag), None, NoArg, NoFlags, threshold)
    /\ UNCHANGED <<videos, titles, tags, date, ncombine>>
    /\ UNCHANGED <<fetchVars, videoVars>>

\* A Video as get_videos builds it: the title a str, the tags a list.
Fetched(id, title, taglist) ==
    [id |-> id, title |-> Str(title), tags |-> List(taglist), comment_count |-> 0]

\* The collections get_videos may have left in self._videos.
Snapshots ==
    { <<>>,
      << Fetched(1, <<"a", " ", "b">>, << <<"a", " ", "b">>, <<"b">> >>) >>,
      << Fetched(1, <<>>, <<>>),
         Fetched(2, <<"b">>, << <<"b">> >>) >>,
      << Fetched(1, <<"b", "!">>, << <<"a">> >>),
         Fetched(2, <<"b">>, << <<"b">>, <<"a">> >>) >> }

\* The flat sequence a call with these selectors is about.
FlatOf(title, tag) == IF title THEN titles ELSE IF tag THEN tags ELSE <<>>

\* The names and indexes passed to count: None, the elements and the
\* positions of the flat sequence the call is about.
NameInputs(flat) == {None} \cup {Str(e) : e \in Range(flat)}

IndexInputs(flat) == {NoArg} \cup {IntArg(i) : i \in 0..(Len(flat) - 1)}

\* The selectors passed: title, tag, neither and both.
Selectors == {<<TRUE, FALSE>>, <<FALSE, TRUE>>, <<FALSE, FALSE>>, <<TRUE, TRUE>>}

\* A Trending on which get_videos has returned.
SnapshotInit ==
    /\ videos \in Snapshots
    /\ titles = <<>>
    /\ tags = <<>>
    /\ title_frequencies = <<>>
    /\ tag_frequencies = <<>>
    /\ date = "utcnow"
    /\ pc = "done"
    /\ session = "closed"
    /\ ids = [i \in 1..Len(videos) |-> videos[i].id]
    /\ count = 0
    /\ finished = TRUE
    /\ calls = <<ids>>
    /\ openAtCall = FALSE
    /\ faithful = TRUE
    /\ CallIdle
    /\ VideoIdle

SnapshotNext ==
    \/ \E split, comb, stop_words \in BOOLEAN : combine_titles(split, comb, stop_words)
    \/ \E split, comb, stop_words \in BOOLEAN : combine_tags(split, comb, stop_words)
    \/ \E split, comb, stop_words \in BOOLEAN : combine(split, comb, stop_words)
    \/ \E sel \in Selectors :
          \E name \in NameInputs(FlatOf(sel[1], sel[2])), index \in IndexInputs(FlatOf(sel[1], sel[2])) :
             trend_count(sel[1], sel[2], name, index)
    \/ \E threshold \in 0..MaxThreshold : find_title_frequencies(threshold)
    \/ \E threshold \in 0..MaxThreshold : find_tag_frequencies(threshold)
    \/ \E sel \in Selectors, threshold \in 0..MaxThreshold : bar_plot(sel[1], sel[2], threshold)

SpecSnapshot == SnapshotInit /\ [][SnapshotNext]_vars

\* The calls that fill the flat sequences and the two that compute the
\* tables from them: count and bar_plot change neither the videos nor the
\* flat sequences, so every flat sequence find_*_frequencies can meet is met.
FrequenciesNext ==
    \/ \E split, comb, stop_words \in BOOLEAN : combine_titles(split, comb, stop_words)
    \/ \E split, comb, stop_words \in BOOLEAN : combine_tags(split, comb, stop_words)
    \/ \E split, comb, stop_words \in BOOLEAN : combine(split, comb, stop_words)
    \/ \E threshold \in 0..MaxThreshold : find_title_frequencies(threshold)
    \/ \E threshold \in 0..MaxThreshold : find_tag_frequencies(threshold)

SpecFrequencies == SnapshotInit /\ [][FrequenciesNext]_vars

---------------------------------------------------------------------------
(* Properties of the Trending snapshot *)

Keys(d) == {d[i][1] : i \in 1..Len(d)}

\* The position of the first occurrence of e in flat.
FirstIndex(flat, e) == CHOOSE i \in 1..Len(flat) : flat[i] = e /\ \A j \in 1..(i - 1) : flat[j] # e

\* d is the frequency table of flat for the threshold k: its keys are the
\* distinct elements that occur at least k times, each with its number of
\* occurrences, in non-decreasing order of that number and, among equal
\* numbers, in the order of the first occurrences.
IsFrequencyTable(d, flat, k) ==
    /\ \A i, j \in 1..Len(d) : d[i][1] = d[j][1] => i = j
    /\ Keys(d) = {e \in Range(flat) : Count(flat, e) >= k}
    /\ \A i \in 1..Len(d) : d[i][2] = Count(flat, d[i][1])
    /\ \A i, j \in 1..Len(d) :
          i < j => \/ d[i][2] < d[j][2]
                   \/ (d[i][2] = d[j][2] /\ FirstIndex(flat, d[i][1]) < FirstIndex(flat, d[j][1]))

\* C4: find_title_frequencies(k) and find_tag_frequencies(k) leave the table
\* {e -> occurrences of e in the flat sequence} restricted to the elements that
\* occur at least k times, ordered by count and then by first occurrence.
C4_FrequencyTable ==
    /\ last.op = "find_title_frequencies"
          => IsFrequencyTable(title_frequencies, titles, last.threshold)
    /\ last.op = "find_tag_frequencies"
          => IsFrequencyTable(tag_frequencies, tags, last.threshold)

\* find_tag_frequencies has put a tag met later in front of one met earlier,
\* because it occurs less often.
C4_Witness ==
    /\ last.op = "find_tag_frequencies"
    /\ Len(tag_frequencies) >= 2
    /\ tag_frequencies[1][2] < tag_frequencies[2][2]
    /\ FirstIndex(tags, tag_frequencies[2][1]) < FirstIndex(tags, tag_frequencies[1][1])

\* C5: count(selector, index=i) with no name, for every valid position i of the
\* selected flat sequence, 0 included, returns the number of occurrences of
\* the element at position i.
C5_CountByIndex ==
    ( /\ last.op = "count"
      /\ last.target \in {"title", "tag"}
      /\ last.name = None
      /\ last.index.kind = "int" )
    => LET flat == IF last.target = "title" THEN titles ELSE tags
       IN  last.index.val < Len(flat)
              => result = RetInt(Count(flat, flat[last.index.val + 1]))

\* The value the dict d stores for the key k.
ValueOf(d, k) == d[KeyIndex(d, k)][2]

\* C6: count by name right after find_tag_frequencies (find_title_frequencies)
\* returns, for every key of the table, the value the table stores for it.
C6_CountMatchesTable ==
    [][ /\ ( /\ last.op = "find_tag_frequencies"
             /\ last'.op = "count" /\ last'.target = "tag"
             /\ last'.name.kind = "str"
             /\ last'.name.val \in Keys(tag_frequencies) )
           => result' = RetInt(ValueOf(tag_frequencies, last'.name.val))
        /\ ( /\ last.op = "find_title_frequencies"
             /\ last'.op = "count" /\ last'.target = "title"
             /\ last'.name.kind = "str"
             /\ last'.name.val \in Keys(title_frequencies) )
           => result' = RetInt(ValueOf(title_frequencies, last'.name.val)) ]_vars

\* C8: bar_plot computes the selected table only when it has not been computed
\* yet and leaves a computed one as it is whatever the threshold; it leaves
\* the other table, the flat sequences, the videos and the date as they are,
\* and with no target selected it changes nothing.
C8_BarPlotComputesOnce ==
    [][ last'.op = "bar_plot" =>
          /\ (last'.target = "title" /\ title_computed) => title_frequencies' = title_frequencies
          /\ (last'.target = "tag" /\ tag_computed) => tag_frequencies' = tag_frequencies
          /\ last'.target # "title" => title_frequencies' = title_frequencies
          /\ last'.target # "tag" => tag_frequencies' = tag_frequencies
          /\ UNCHANGED <<videos, titles, tags, date>> ]_vars

\* C9: combine_titles(split=False, stop_words=False) on videos that hold their
\* fetched title strings appends one element per video, the whole title, in
\* the order of the videos.
C9_CombineTitlesAppendsTitles ==
    [][ ( /\ last'.op = "combine_titles"
          /\ ~last'.split /\ ~last'.stop_words
          /\ \A i \in 1..Len(videos) : videos[i].title.kind = "str" )
        => titles' = titles \o [i \in 1..Len(videos) |-> videos[i].title.val] ]_vars

\* The videos are as get_videos built them: each title a str, each tags a
\* list, [] for a record that carried no tags.
AsFetched(vs) ==
    \A i \in 1..Len(vs) : vs[i].title.kind = "str" /\ vs[i].tags.kind = "list"

\* C12: combine(split, combine, stop_words), for every value of the three
\* flags, on videos as get_videos built them, those with the tags [] included,
\* returns without an error, and on return the flat titles and the flat tags
\* have grown by the elements of the title and by the tags of every video, as
\* the call left them, in the order of the videos.
C12_CombineCompletes ==
    [][ (last'.op = "combine" /\ AsFetched(videos))
        => /\ result' = RetNone
           /\ titles' = titles \o Flatten([i \in 1..Len(videos') |-> Elements(videos'[i].title)])
           /\ tags' = tags \o Flatten([i \in 1..Len(videos') |-> Elements(videos'[i].tags)]) ]_vars

---------------------------------------------------------------------------
(* Properties of Video *)

\* w with one leading punctuation character removed if it has one, and then
\* one trailing punctuation character removed if it has one.
StripOnce(w) ==
    LET lead == IF w # <<>> /\ w[1] \in Punctuation THEN Tail(w) ELSE w
    IN  IF lead # <<>> /\ lead[Len(lead)] \in Punctuation
        THEN SubSeq(lead, 1, Len(lead) - 1)
        ELSE lead

\* The tokens of the list l left by split_title(comb): all of it, or all but
\* the original title put in front.
Tokens(comb, l) == IF comb THEN Tail(l.val) ELSE l.val

\* l is a list, headed by the title s when comb is set, whose tokens are not
\* empty and are words of s stripped once.
TokensOfTitle(s, comb, l) ==
    /\ l.kind = "list"
    /\ comb => (l.val # <<>> /\ Head(l.val) = s)
    /\ \A i \in 1..Len(Tokens(comb, l)) :
          /\ Tokens(comb, l)[i] # <<>>
          /\ \E w \in Range(Split(s)) : Tokens(comb, l)[i] = StripOnce(w)

\* C3 as stated: for every title string and either value of combine,
\* split_title leaves a list whose tokens are non-empty, each its source word
\* with one leading and one trailing punctuation character removed, the
\* original title first when combine is set, and no two elements of the list
\* are equal.
C3_SplitTitleNoDuplicates ==
    [][(outcome'.op = "split_title" /\ vid.title.kind = "str")
          => /\ TokensOfTitle(vid.title.val, outcome'.combine, vid'.title)
             /\ NoDuplicates(vid'.title.val)]_vars

\* C3 amended: the same, with no two tokens equal; the original title put in
\* front by combine=True may equal one of the tokens.
C3_SplitTitleTokensDistinct ==
    [][(outcome'.op = "split_title" /\ vid.title.kind = "str")
          => /\ TokensOfTitle(vid.title.val, outcome'.combine, vid'.title)
             /\ NoDuplicates(Tokens(outcome'.combine, vid'.title))]_vars

\* split_title(combine=True) has left the original title and two tokens.
C3_Witness ==
    /\ outcome.op = "split_title"
    /\ outcome.combine
    /\ outcome.end = "returned"
    /\ Len(vid.title.val) = 3

\* C7: split_tags, for either value of combine, on a Video whose tags are None
\* ends with the TypeError raised, never with a return, and leaves every field
\* of the Video as it was.
C7_SplitTagsOnNoneRaises ==
    [][(outcome'.op = "split_tags" /\ vid.tags = None)
          => (outcome'.end = "TypeError" /\ vid' = vid)]_vars

\* split_tags(combine=True) has been called on a Video whose tags are None.
C7_Witness ==
    /\ outcome.op = "split_tags"
    /\ outcome.combine
    /\ outcome.end = "TypeError"
    /\ vid.tags = None

\* The tags of the Video v, when it has a tag list, hold no two equal elements.
TagsUnique(v) == v.tags.kind = "list" => NoDuplicates(v.tags.val)

\* C11: a Video whose tags were built distinct and lower-case keeps a tag
\* list with no two equal elements through every sequence of split_tags, with
\* either value of combine, and stop_tags, called on it directly or by
\* combine_tags and combine on the videos of a Trending.
C11_TagsStayUnique ==
    /\ TagsUnique(vid)
    /\ \A i \in 1..Len(videos) : TagsUnique(videos[i])

=============================================================================
